---- MODULE Spec2Model ----
(***************************************************************************)
(* Notification consumer of the task notification service:                *)
(* NotificationConsumer (consumer.py), NotificationProcessor               *)
(* (processor.py) and the event schema (common/schemas/events.py).         *)
(*                                                                         *)
(* The status store (Redis) and the broker queue (RabbitMQ) are modelled   *)
(* by what the consumer calls on them: GET / SETEX with a TTL, and         *)
(* deliver / ack / reject of queued messages.  Every await of              *)
(* _process_message is a separate step, so deliveries interleave exactly   *)
(* where the asyncio event loop can switch between them.                   *)
(***************************************************************************)
EXTENDS Integers, Sequences, FiniteSets, TLC

(* ------------------------------ bounds -------------------------------- *)

\* number of messages ever published to the queue
MaxMsgs == 2

\* number of distinct valid event ids (UUIDs) carried by messages
NumEventIds == 2

\* events published while main() starts, runs and stops
MaxEvents == 1

\* messages a producer leaves in the queue in one burst
MaxBurst == 12

\* further deliveries of an event whose first delivery failed
MaxDuplicates == 2

\* concurrent publish_* calls of the task service
NumCallers == 3

(* ----------------------- constants of the program --------------------- *)

\* Python's None
None == "None"

\* common/schemas/events.py: class EventType
EventType == {"task.created", "task.updated", "task.deleted", "task.status_changed"}

\* common/schemas/events.py: class NotificationStatus
NotificationStatus ==
    [PENDING |-> "pending", PROCESSED |-> "processed", FAILED |-> "failed"]

StatusValues == {NotificationStatus.PENDING, NotificationStatus.PROCESSED,
                 NotificationStatus.FAILED}

\* consumer.py:52  set_qos(prefetch_count=10)
prefetch_count == 10

\* consumer.py:91  the expiry given to SETEX
StatusTtl == 86400 * 7

\* the clock of the status store advances in steps of half a retention window
TickSeconds == StatusTtl \div 2

(* ------------------------------ inputs -------------------------------- *)

EventIds == 1 .. NumEventIds

\* event_type strings found on the wire: one of the enumeration (the four
\* differ only in the handler the dispatcher picks) and one of a newer
\* producer that the enumeration does not know
RawTypes == {"task.created", "task.archived"}

\* A raw message body.  json = FALSE: the bytes are not a JSON object.
\* event_id = 0: the field is missing or is no UUID.
BadJson == [json |-> FALSE, event_id |-> 0, event_type |-> "task.created"]

RawBodies ==
    {BadJson} \cup [json : {TRUE}, event_id : 0 .. NumEventIds, event_type : RawTypes]

\* consumer.py:76,91  the key of an event's status record
Key(event_id) == <<"notification", event_id>>

Keys == {Key(e) : e \in EventIds}

(* ------------------------------ state --------------------------------- *)

VARIABLES
    mainpc,        \* position of main() / start()
    redis_client,  \* self.redis_client: None or a client
    connection,    \* self.connection
    channel,       \* self.channel
    queue,         \* self.queue
    consuming,     \* queue.consume(self._process_message) is registered
    store,         \* status store: key -> None (absent) or a status value
    ttl,           \* status store: remaining seconds of each key (0: absent)
    expired,       \* keys whose `processed` record has expired at least once
    msgs,          \* the queue's messages, in publication order
    log,           \* what main(), start() and stop() have done so far, in order
    call,          \* a call of the dispatcher on its own: its input and result
    producer       \* the task service's EventService and its publish_* calls

vars == <<mainpc, redis_client, connection, channel, queue, consuming,
          store, ttl, expired, msgs, log, call, producer>>

lifecycle == <<mainpc, redis_client, connection, channel, queue, consuming, log>>

(* --------------------------- pure functions --------------------------- *)

\* consumer.py:101-102  json.loads(message.body.decode()); TaskEvent(**body)
\* pydantic validates event_id as a UUID and event_type against EventType.
Decode(body) ==
    IF ~body.json THEN [ok |-> FALSE, event_id |-> 0, event_type |-> None]
    ELSE IF body.event_id \notin EventIds
         THEN [ok |-> FALSE, event_id |-> 0, event_type |-> None]
    ELSE IF body.event_type \notin EventType
         THEN [ok |-> FALSE, event_id |-> 0, event_type |-> None]
    ELSE [ok |-> TRUE, event_id |-> body.event_id, event_type |-> body.event_type]

\* the dedup read that never finds a record
_get_notification_status_blind(rc, st, event_id, ok) ==
    [status |-> None, raised |-> FALSE]

\* the dedup read without its try/except
_get_notification_status_raises(rc, st, event_id, ok) ==
    IF rc = None THEN [status |-> None, raised |-> FALSE]
    ELSE IF ok THEN [status |-> st[Key(event_id)], raised |-> FALSE]
    ELSE [status |-> None, raised |-> TRUE]

\* consumer.py:70-80
\* ok: whether the GET reaches the store and returns
_get_notification_status(rc, st, event_id, ok) ==
    IF rc = None THEN [status |-> None, raised |-> FALSE]
    ELSE IF ok THEN [status |-> st[Key(event_id)], raised |-> FALSE]
    ELSE [status |-> None, raised |-> FALSE]

\* the comparison made against the wrong status
AlreadyProcessed_pending(existing_status) ==
    existing_status = NotificationStatus.PENDING

\* a dedup check that also skips an event recorded as `failed`
AlreadyProcessed_or_failed(existing_status) ==
    existing_status \in {NotificationStatus.PROCESSED, NotificationStatus.FAILED}

\* consumer.py:106
AlreadyProcessed(existing_status) == existing_status = NotificationStatus.PROCESSED

\* the status write without its try/except
_set_notification_status_raises(rc, st, tt, event_id, status, ok) ==
    IF rc = None THEN [store |-> st, ttl |-> tt, raised |-> FALSE]
    ELSE IF ok
         THEN [store  |-> [st EXCEPT ![Key(event_id)] = status],
               ttl    |-> [tt EXCEPT ![Key(event_id)] = StatusTtl],
               raised |-> FALSE]
    ELSE [store |-> st, ttl |-> tt, raised |-> TRUE]

\* the status write with a one-day expiry
_set_notification_status_one_day(rc, st, tt, event_id, status, ok) ==
    IF rc = None THEN [store |-> st, ttl |-> tt, raised |-> FALSE]
    ELSE IF ok
         THEN [store  |-> [st EXCEPT ![Key(event_id)] = status],
               ttl    |-> [tt EXCEPT ![Key(event_id)] = 86400],
               raised |-> FALSE]
    ELSE [store |-> st, ttl |-> tt, raised |-> FALSE]

\* a write that returns without sending the SETEX: nothing is stored and
\* nothing is raised
_set_notification_status_noop(rc, st, tt, event_id, status, ok) ==
    [store |-> st, ttl |-> tt, raised |-> FALSE]

\* consumer.py:82-94
\* ok: whether the SETEX reaches the store and is applied
_set_notification_status(rc, st, tt, event_id, status, ok) ==
    IF rc = None THEN [store |-> st, ttl |-> tt, raised |-> FALSE]
    ELSE IF ok
         THEN [store  |-> [st EXCEPT ![Key(event_id)] = status],
               ttl    |-> [tt EXCEPT ![Key(event_id)] = StatusTtl],
               raised |-> FALSE]
    ELSE [store |-> st, ttl |-> tt, raised |-> FALSE]

\* a handler_map with the handlers of two types exchanged
handler_map_swapped ==
    [t \in EventType |->
        CASE t = "task.created"        -> "_handle_task_created"
          [] t = "task.updated"        -> "_handle_task_deleted"
          [] t = "task.status_changed" -> "_handle_task_status_changed"
          [] t = "task.deleted"        -> "_handle_task_updated"]

\* processor.py:27-32
handler_map ==
    [t \in EventType |->
        CASE t = "task.created"        -> "_handle_task_created"
          [] t = "task.updated"        -> "_handle_task_updated"
          [] t = "task.status_changed" -> "_handle_task_status_changed"
          [] t = "task.deleted"        -> "_handle_task_deleted"]

\* processor.py:14-38
\* fails: whether the handler's side effect raises
process_notification(event_type, fails) ==
    IF event_type \in DOMAIN handler_map
    THEN [handler |-> handler_map[event_type], raised |-> fails]
    ELSE [handler |-> None, raised |-> FALSE]

\* the keys the handlers read in event.data, and the values a producer may
\* put under them (None: a JSON null)
DataKeys == {"title", "old_status", "new_status"}

DataValues == {"todo", "done", None}

\* event.data: a dict holding any subset of the keys
Dicts == UNION {[S -> DataValues] : S \in SUBSET DataKeys}

\* d[k]: subscripting instead of d.get(k, default) raises KeyError
DictGet_subscript(d, k, default) ==
    IF k \in DOMAIN d THEN d[k] ELSE "KeyError"

\* dict.get(k, default)
DictGet(d, k, default) ==
    IF k \in DOMAIN d THEN d[k] ELSE default

\* logger.info of an f-string built from the parts: evaluating a part that
\* raised raises, otherwise the message is logged
Logged(parts) ==
    [raised  |-> \E n \in 1 .. Len(parts) : parts[n] = "KeyError",
     message |-> parts]

\* processor.py:40-46
_handle_task_created(data) ==
    Logged(<<"created", DictGet(data, "title", "N/A")>>)

\* processor.py:48-54
_handle_task_updated(data) ==
    Logged(<<"updated", DictGet(data, "title", "N/A")>>)

\* processor.py:56-64
_handle_task_status_changed(data) ==
    LET old_status == DictGet(data, "old_status", "unknown")
        new_status == DictGet(data, "new_status", "unknown")
    IN Logged(<<"status changed", DictGet(data, "title", "N/A"), old_status, new_status>>)

\* processor.py:66-72
_handle_task_deleted(data) ==
    Logged(<<"deleted", DictGet(data, "title", "N/A")>>)

\* processor.py:34-38  the handler looked up for the event's type, awaited
\* with the event
Handle(event_type, data) ==
    LET handler == process_notification(event_type, FALSE).handler
    IN CASE handler = "_handle_task_created"        -> _handle_task_created(data)
         [] handler = "_handle_task_updated"        -> _handle_task_updated(data)
         [] handler = "_handle_task_status_changed" -> _handle_task_status_changed(data)
         [] handler = "_handle_task_deleted"        -> _handle_task_deleted(data)
         [] OTHER                                   -> [raised |-> FALSE, message |-> << >>]

\* the except block without its final `raise`
ExceptBlock_swallow(rc, event_bound, exc) ==
    IF rc = None THEN [pc |-> "settle", exc |-> None]
    ELSE IF event_bound THEN [pc |-> "set_failed", exc |-> None]
    ELSE [pc |-> "settle", exc |-> "UnboundLocalError"]

\* the except block without the `failed` write of lines 129-135
ExceptBlock_no_failed_write(rc, event_bound, exc) ==
    IF rc = None THEN [pc |-> "settle", exc |-> exc]
    ELSE IF event_bound THEN [pc |-> "settle", exc |-> exc]
    ELSE [pc |-> "settle", exc |-> "UnboundLocalError"]

\* consumer.py:127-138  the except block, entered with exception exc.
\* `event` is a local of _process_message that is bound only once line 102
\* has completed: reading it unbound raises UnboundLocalError.
ExceptBlock(rc, event_bound, exc) ==
    IF rc = None THEN [pc |-> "settle", exc |-> exc]
    ELSE IF event_bound THEN [pc |-> "set_failed", exc |-> exc]
    ELSE [pc |-> "settle", exc |-> "UnboundLocalError"]

\* consumer.py:98  message.process() with its default arguments
\* (requeue=False): ack on a clean exit, reject(requeue) on an exception
ProcessRequeue == FALSE

\* message.process(ignore_processed=True) around a body that settles nothing
\* itself on an exception: the message is left unacknowledged
ProcessExit_leave_unacked(exc) ==
    IF exc = None THEN "acked" ELSE "unacked"

\* a context manager that acknowledges on every exit
ProcessExit_always_ack(exc) == "acked"

ProcessExit(exc) ==
    IF exc = None THEN "acked"
    ELSE IF ProcessRequeue THEN "ready"
    ELSE "rejected"

(* ------------------------------ messages ------------------------------ *)

\* One executed step of a delivery, kept for the properties.
\* arg: the status written, the handler invoked, what the store held at the
\* dedup read, or the exception at the exit; ok: the call did not fail;
\* after: for an applied write, the record <<value, ttl>> it left in the store
Step(op, arg, ok, after) == [op |-> op, arg |-> arg, ok |-> ok, after |-> after]

\* the record a status write left under the event's key, None if it failed
Written(r, event_id, applied) ==
    IF applied THEN <<r.store[Key(event_id)], r.ttl[Key(event_id)]>> ELSE None

NewMessage(body) ==
    [body   |-> body,
     broker |-> "ready",      \* ready | unacked | acked | rejected
     pc     |-> "queued",
     event  |-> [ok |-> FALSE, event_id |-> 0, event_type |-> None],
     exc    |-> None,
     trace  |-> << >>]

Unacked == {i \in 1 .. Len(msgs) : msgs[i].broker = "unacked"}

(* ------------------------- the producer's state ---------------------- *)

\* the concurrent publish_* calls of the task service
Callers == 1 .. NumCallers

\* event_service.py:14-15  the class attributes, before any call; the
\* connections opened so far (numbered) and those closed; and per call:
\* where it is, the connection it opened and awaits the setup of, the
\* exchange it handed to publish_task_event (named by its connection) and
\* the connection stored in the class at that moment
NoProducer ==
    [_connection |-> 0,
     _exchange   |-> 0,
     opened      |-> 0,
     closed      |-> {},
     pc          |-> [c \in Callers |-> "idle"],
     mine        |-> [c \in Callers |-> 0],
     used        |-> [c \in Callers |-> 0],
     stored      |-> [c \in Callers |-> 0]]

(* ------------------------------ startup ------------------------------- *)

Init ==
    /\ mainpc = "connect_redis"
    /\ redis_client = None
    /\ connection = None
    /\ channel = None
    /\ queue = None
    /\ consuming = FALSE
    /\ store = [k \in Keys |-> None]
    /\ ttl = [k \in Keys |-> 0]
    /\ expired = {}
    /\ msgs = << >>
    /\ log = << >>
    /\ call = None
    /\ producer = NoProducer

\* connect_redis whose except block logs without the `raise` of line 45, so
\* that start() goes on to the broker after a failed store connection
connect_redis_swallow ==
    /\ mainpc = "connect_redis"
    /\ \E stage \in 0 .. 2 :
        /\ redis_client' = IF stage >= 1 THEN "client" ELSE None
        /\ mainpc' = "connect_rabbitmq"
        /\ log' = Append(log, <<"connect_redis", stage = 2>>)
    /\ UNCHANGED <<connection, channel, queue, consuming, store, ttl, expired, msgs, call, producer>>

\* consumer.py:35-45 (called at 142)
\* stage 0: from_url raises; 1: ping raises; 2: connected
connect_redis ==
    /\ mainpc = "connect_redis"
    /\ \E stage \in 0 .. 2 :
        /\ redis_client' = IF stage >= 1 THEN "client" ELSE None
        /\ mainpc' = IF stage = 2 THEN "connect_rabbitmq" ELSE "start_failed"
        /\ log' = Append(log, <<"connect_redis", stage = 2>>)
    /\ UNCHANGED <<connection, channel, queue, consuming, store, ttl, expired, msgs, call, producer>>

\* consumer.py:47-68 (called at 143)
\* stage 0: connect_robust raises; 1: channel() raises; 2: set_qos or a
\* declaration raises; 3: bind raises; 4: topology declared
connect_rabbitmq ==
    /\ mainpc = "connect_rabbitmq"
    /\ \E stage \in 0 .. 4 :
        /\ connection' = IF stage >= 1 THEN "open" ELSE None
        /\ channel' = IF stage >= 2 THEN "open" ELSE None
        /\ queue' = IF stage >= 3 THEN "declared" ELSE None
        /\ mainpc' = IF stage = 4 THEN "consume" ELSE "start_failed"
        /\ log' = Append(log, <<"connect_rabbitmq", stage = 4>>)
    /\ UNCHANGED <<redis_client, consuming, store, ttl, expired, msgs, call, producer>>

\* consumer.py:147-152
start_consume ==
    /\ mainpc = "consume"
    /\ IF queue = None
       THEN mainpc' = "start_failed" /\ UNCHANGED consuming
       ELSE mainpc' = "running" /\ consuming' = TRUE
    /\ log' = Append(log, <<"consume", queue # None>>)
    /\ UNCHANGED <<redis_client, connection, channel, queue, store, ttl, expired, msgs, call, producer>>

(* ---------------------------- environment ----------------------------- *)

\* a producer publishes a message to the durable queue
Publish ==
    /\ Len(msgs) < MaxMsgs
    /\ \E body \in RawBodies : msgs' = Append(msgs, NewMessage(body))
    /\ UNCHANGED <<lifecycle, store, ttl, expired, call, producer>>

\* the task service publishes a well-formed event (a TaskEvent serialised
\* by publish_task_event)
EventBodies == {b \in RawBodies : Decode(b).ok}

publish_task_event ==
    /\ Len(msgs) < MaxEvents
    /\ \E body \in EventBodies : msgs' = Append(msgs, NewMessage(body))
    /\ UNCHANGED <<lifecycle, store, ttl, expired, call, producer>>

\* time passes in the status store; records whose TTL runs out are removed
Tick ==
    /\ \E k \in Keys : ttl[k] > 0
    /\ ttl' = [k \in Keys |-> IF ttl[k] > TickSeconds THEN ttl[k] - TickSeconds ELSE 0]
    /\ store' = [k \in Keys |-> IF ttl[k] > TickSeconds THEN store[k] ELSE None]
    /\ expired' = expired \cup
          {k \in Keys : ttl[k] <= TickSeconds /\ store[k] = NotificationStatus.PROCESSED}
    /\ UNCHANGED <<lifecycle, msgs, call, producer>>

(* ------------------------- _process_message --------------------------- *)

\* Deliver on a channel whose set_qos call (consumer.py:52) was left out: the
\* broker pushes every ready message
Deliver_no_qos(i) ==
    /\ consuming
    /\ msgs[i].broker = "ready"
    /\ \A j \in 1 .. (i - 1) : msgs[j].broker # "ready"
    /\ LET ev == Decode(msgs[i].body)
           ex == ExceptBlock(redis_client, FALSE, "DecodeError")
       IN msgs' = [msgs EXCEPT ![i] =
            IF ev.ok
            THEN [@ EXCEPT !.broker = "unacked", !.pc = "get", !.event = ev,
                           !.trace = <<Step("decode", None, TRUE, None)>>]
            ELSE [@ EXCEPT !.broker = "unacked", !.pc = ex.pc, !.exc = ex.exc,
                           !.trace = <<Step("decode", None, FALSE, None)>>]]
    /\ UNCHANGED <<lifecycle, store, ttl, expired, call, producer>>

\* Deliver by a consumer that awaits the callback of one message before it
\* takes the next: nothing is delivered while a delivery is in flight
Deliver_serial(i) ==
    /\ consuming
    /\ msgs[i].broker = "ready"
    /\ \A j \in 1 .. (i - 1) : msgs[j].broker # "ready"
    /\ Unacked = {}
    /\ LET ev == Decode(msgs[i].body)
           ex == ExceptBlock(redis_client, FALSE, "DecodeError")
       IN msgs' = [msgs EXCEPT ![i] =
            IF ev.ok
            THEN [@ EXCEPT !.broker = "unacked", !.pc = "get", !.event = ev,
                           !.trace = <<Step("decode", None, TRUE, None)>>]
            ELSE [@ EXCEPT !.broker = "unacked", !.pc = ex.pc, !.exc = ex.exc,
                           !.trace = <<Step("decode", None, FALSE, None)>>]]
    /\ UNCHANGED <<lifecycle, store, ttl, expired, call, producer>>

\* The broker hands the oldest ready message to the callback (at most
\* prefetch_count unacknowledged); consumer.py:98-102 run up to the first
\* await: enter message.process(), decode, and on a decode failure run the
\* except block.
Deliver(i) ==
    /\ consuming
    /\ msgs[i].broker = "ready"
    /\ \A j \in 1 .. (i - 1) : msgs[j].broker # "ready"
    /\ Cardinality(Unacked) < prefetch_count
    /\ LET ev == Decode(msgs[i].body)
           ex == ExceptBlock(redis_client, FALSE, "DecodeError")
       IN msgs' = [msgs EXCEPT ![i] =
            IF ev.ok
            THEN [@ EXCEPT !.broker = "unacked", !.pc = "get", !.event = ev,
                           !.trace = <<Step("decode", None, TRUE, None)>>]
            ELSE [@ EXCEPT !.broker = "unacked", !.pc = ex.pc, !.exc = ex.exc,
                           !.trace = <<Step("decode", None, FALSE, None)>>]]
    /\ UNCHANGED <<lifecycle, store, ttl, expired, call, producer>>

\* consumer.py:104-112  the dedup read and the comparison with `processed`
GetStatus(i) ==
    /\ msgs[i].pc = "get"
    /\ \E ok \in BOOLEAN :
        LET m == msgs[i]
            k == Key(m.event.event_id)
            r == _get_notification_status(redis_client, store, m.event.event_id, ok)
            ex == ExceptBlock(redis_client, TRUE, "StoreError")
            seen == IF k \in expired /\ store[k] = None THEN "expired" ELSE store[k]
        IN msgs' = [msgs EXCEPT ![i] =
             [@ EXCEPT !.pc = IF r.raised THEN ex.pc
                              ELSE IF AlreadyProcessed(r.status) THEN "settle"
                              ELSE "set_pending",
                       !.exc = IF r.raised THEN ex.exc ELSE @,
                       !.trace = Append(@, Step("get", seen, ok /\ redis_client # None, None))]]
    /\ UNCHANGED <<lifecycle, store, ttl, expired, call, producer>>

\* consumer.py:114-115
SetPending(i) ==
    /\ msgs[i].pc = "set_pending"
    /\ \E ok \in BOOLEAN :
        LET m == msgs[i]
            r == _set_notification_status(redis_client, store, ttl, m.event.event_id,
                                          NotificationStatus.PENDING, ok)
            ex == ExceptBlock(redis_client, TRUE, "StoreError")
        IN /\ store' = r.store
           /\ ttl' = r.ttl
           /\ msgs' = [msgs EXCEPT ![i] =
                [@ EXCEPT !.pc = IF r.raised THEN ex.pc ELSE "dispatch",
                          !.exc = IF r.raised THEN ex.exc ELSE @,
                          !.trace = Append(@, Step("set", NotificationStatus.PENDING,
                                                   ok /\ redis_client # None,
                                                   Written(r, m.event.event_id, ok /\ redis_client # None)))]]
    /\ UNCHANGED <<lifecycle, expired, call, producer>>

\* consumer.py:117-118
Dispatch(i) ==
    /\ msgs[i].pc = "dispatch"
    /\ \E fails \in BOOLEAN :
        LET m == msgs[i]
            r == process_notification(m.event.event_type, fails)
            ex == ExceptBlock(redis_client, TRUE, "HandlerError")
        IN msgs' = [msgs EXCEPT ![i] =
             [@ EXCEPT !.pc = IF r.raised THEN ex.pc ELSE "set_processed",
                       !.exc = IF r.raised THEN ex.exc ELSE @,
                       !.trace = Append(@, Step("dispatch", r.handler, ~r.raised, None))]]
    /\ UNCHANGED <<lifecycle, store, ttl, expired, call, producer>>

\* consumer.py:120-125
SetProcessed(i) ==
    /\ msgs[i].pc = "set_processed"
    /\ \E ok \in BOOLEAN :
        LET m == msgs[i]
            r == _set_notification_status(redis_client, store, ttl, m.event.event_id,
                                          NotificationStatus.PROCESSED, ok)
            ex == ExceptBlock(redis_client, TRUE, "StoreError")
        IN /\ store' = r.store
           /\ ttl' = r.ttl
           /\ msgs' = [msgs EXCEPT ![i] =
                [@ EXCEPT !.pc = IF r.raised THEN ex.pc ELSE "settle",
                          !.exc = IF r.raised THEN ex.exc ELSE @,
                          !.trace = Append(@, Step("set", NotificationStatus.PROCESSED,
                                                   ok /\ redis_client # None,
                                                   Written(r, m.event.event_id, ok /\ redis_client # None)))]]
    /\ UNCHANGED <<lifecycle, expired, call, producer>>

\* consumer.py:129-138  the `failed` write inside its own try, then `raise`
SetFailed(i) ==
    /\ msgs[i].pc = "set_failed"
    /\ \E ok \in BOOLEAN :
        LET m == msgs[i]
            r == _set_notification_status(redis_client, store, ttl, m.event.event_id,
                                          NotificationStatus.FAILED, ok)
        IN /\ store' = r.store
           /\ ttl' = r.ttl
           /\ msgs' = [msgs EXCEPT ![i] =
                [@ EXCEPT !.pc = "settle",
                          !.trace = Append(@, Step("set", NotificationStatus.FAILED,
                                                   ok /\ redis_client # None,
                                                   Written(r, m.event.event_id, ok /\ redis_client # None)))]]
    /\ UNCHANGED <<lifecycle, expired, call, producer>>

\* consumer.py:98  leaving `async with message.process()`
\* On a channel that stop() has closed the ack or reject raises and the
\* broker keeps the message as it requeued it when the channel went away.
Settle(i) ==
    /\ msgs[i].pc = "settle"
    /\ LET m == msgs[i]
           sent == channel = "open"
           b == IF sent THEN ProcessExit(m.exc) ELSE m.broker
       IN msgs' = [msgs EXCEPT ![i] =
            [@ EXCEPT !.broker = b,
                      !.pc = IF sent /\ b = "ready" THEN "queued" ELSE "done",
                      !.trace = Append(@, Step(IF m.exc = None THEN "ack" ELSE "reject",
                                               m.exc, sent, None))]]
    /\ UNCHANGED <<lifecycle, store, ttl, expired, call, producer>>

\* the next step of delivery i, whichever it is
Proceed(i) ==
    \/ GetStatus(i)
    \/ SetPending(i)
    \/ Dispatch(i)
    \/ SetProcessed(i)
    \/ SetFailed(i)
    \/ Settle(i)

OnMessage == \E i \in 1 .. Len(msgs) : Deliver(i)

DedupCheck == \E i \in 1 .. Len(msgs) : GetStatus(i)

MarkPending == \E i \in 1 .. Len(msgs) : SetPending(i)

ProcessNotification == \E i \in 1 .. Len(msgs) : Dispatch(i)

MarkProcessed == \E i \in 1 .. Len(msgs) : SetProcessed(i)

MarkFailed == \E i \in 1 .. Len(msgs) : SetFailed(i)

ProcessContextExit == \E i \in 1 .. Len(msgs) : Settle(i)

Next ==
    \/ connect_redis
    \/ connect_rabbitmq
    \/ start_consume
    \/ Publish
    \/ Tick
    \/ OnMessage
    \/ DedupCheck
    \/ MarkPending
    \/ ProcessNotification
    \/ MarkProcessed
    \/ MarkFailed
    \/ ProcessContextExit

Spec == Init /\ [][Next]_vars

(* ------------------------------ backlog ------------------------------- *)

\* a backlog of more messages than the prefetch window is waiting in the
\* durable queue (here: bodies that fail to decode, the shortest delivery)
Backlog ==
    /\ msgs = << >>
    /\ msgs' = [i \in 1 .. MaxBurst |-> NewMessage(BadJson)]
    /\ UNCHANGED <<lifecycle, store, ttl, expired, call, producer>>

NextPrefetch ==
    \/ connect_redis
    \/ connect_rabbitmq
    \/ start_consume
    \/ Backlog
    \/ OnMessage
    \/ ProcessContextExit

SpecPrefetch == Init /\ [][NextPrefetch]_vars

(* ------------------------ the dispatcher alone ------------------------ *)

\* what the side effect of a handler (sending the notification) may raise
Faults == {None, "DeliveryError"}

\* a valid event of any type, with any payload, is about to be dispatched
InitHandlers ==
    /\ mainpc = "connect_redis"
    /\ redis_client = None
    /\ connection = None
    /\ channel = None
    /\ queue = None
    /\ consuming = FALSE
    /\ store = [k \in Keys |-> None]
    /\ ttl = [k \in Keys |-> 0]
    /\ expired = {}
    /\ msgs = << >>
    /\ log = << >>
    /\ call \in [event_type : EventType, data : Dicts, fault : Faults,
                 returned : {FALSE}, invoked : {<< >>}, exc : {None},
                 result : {[raised |-> FALSE, message |-> << >>]}]
    /\ producer = NoProducer

\* processor.py:14-38  process_notification(event) runs to its end
Dispatched ==
    /\ ~call.returned
    /\ LET r == process_notification(call.event_type, call.fault # None)
           h == Handle(call.event_type, call.data)
       IN call' = [call EXCEPT
                     !.returned = TRUE,
                     !.invoked = IF r.handler = None THEN @ ELSE Append(@, r.handler),
                     !.exc = IF h.raised THEN "KeyError"
                             ELSE IF r.raised THEN call.fault ELSE None,
                     !.result = h]
    /\ UNCHANGED <<lifecycle, store, ttl, expired, msgs, producer>>

NextHandlers == Dispatched

SpecHandlers == InitHandlers /\ [][NextHandlers]_vars

(* ------------------------ recovery after a failure -------------------- *)

\* the event whose first delivery failed
FailedEvent == [json |-> TRUE, event_id |-> 1, event_type |-> "task.created"]

\* that first delivery, as it ended: handler raised, `failed` written,
\* message rejected
FailedDelivery ==
    [body   |-> FailedEvent,
     broker |-> "rejected",
     pc     |-> "done",
     event  |-> Decode(FailedEvent),
     exc    |-> "HandlerError",
     trace  |-> <<Step("decode", None, TRUE, None),
                  Step("get", None, TRUE, None),
                  Step("set", NotificationStatus.PENDING, TRUE,
                       <<NotificationStatus.PENDING, StatusTtl>>),
                  Step("dispatch", handler_map[FailedEvent.event_type], FALSE, None),
                  Step("set", NotificationStatus.FAILED, TRUE,
                       <<NotificationStatus.FAILED, StatusTtl>>),
                  Step("reject", "HandlerError", TRUE, None)>>]

\* the consumer is running and one delivery of the event has ended `failed`
InitRecovery ==
    /\ mainpc = "running"
    /\ redis_client = "client"
    /\ connection = "open"
    /\ channel = "open"
    /\ queue = "declared"
    /\ consuming = TRUE
    /\ store = [k \in Keys |-> IF k = Key(FailedEvent.event_id)
                               THEN NotificationStatus.FAILED ELSE None]
    /\ ttl = [k \in Keys |-> IF k = Key(FailedEvent.event_id) THEN StatusTtl ELSE 0]
    /\ expired = {}
    /\ msgs = <<FailedDelivery>>
    /\ log = <<<<"connect_redis", TRUE>>, <<"connect_rabbitmq", TRUE>>, <<"consume", TRUE>>>>
    /\ call = None
    /\ producer = NoProducer

\* the same event reaches the queue again (a producer retry or a duplicate
\* publication: the rejected message itself is not requeued)
PublishDuplicate ==
    /\ Len(msgs) < 1 + MaxDuplicates
    /\ msgs' = Append(msgs, NewMessage(FailedEvent))
    /\ UNCHANGED <<lifecycle, store, ttl, expired, call, producer>>

NextRecovery ==
    \/ PublishDuplicate
    \/ Tick
    \/ OnMessage
    \/ DedupCheck
    \/ MarkPending
    \/ ProcessNotification
    \/ MarkProcessed
    \/ MarkFailed
    \/ ProcessContextExit

SpecRecovery == InitRecovery /\ [][NextRecovery]_vars

(* ----------------------- the producer: EventService ------------------ *)

\* connections and exchanges are numbered from 1; 0 stands for None

\* event_service.py:20  cls._connection is None or cls._connection.is_closed
NeedsConnection(p) == p._connection = 0 \/ p._connection \in p.closed

\* event_service.py:29, 20 and, when the check passes over the connect,
\* 31-42 up to the await of publish_task_event: no await lies between the
\* check and the read of cls._exchange
publish_call(c) ==
    /\ producer.pc[c] = "idle"
    /\ IF NeedsConnection(producer)
       THEN producer' = [producer EXCEPT !.pc[c] = "connecting"]
       ELSE producer' = [producer EXCEPT !.pc[c] = "publishing",
                                         !.used[c] = producer._exchange,
                                         !.stored[c] = producer._connection]
    /\ UNCHANGED <<lifecycle, store, ttl, expired, msgs, call>>

\* event_service.py:21  the await of get_rabbitmq_connection returns a new
\* connection, which is assigned to cls._connection and passed to
\* setup_exchange_and_queue (line 22-23, evaluated before its await)
connection_opened(c) ==
    /\ producer.pc[c] = "connecting"
    /\ LET n == producer.opened + 1
       IN producer' = [producer EXCEPT !.pc[c] = "setup",
                                       !.opened = n,
                                       !._connection = n,
                                       !.mine[c] = n]
    /\ UNCHANGED <<lifecycle, store, ttl, expired, msgs, call>>

\* event_service.py:22-24  setup_exchange_and_queue returns the exchange of
\* the caller's connection (or raises when that connection is gone), it is
\* assigned to cls._exchange; then lines 31-42 up to the await of
\* publish_task_event
exchange_declared(c) ==
    /\ producer.pc[c] = "setup"
    /\ IF producer.mine[c] \in producer.closed
       THEN producer' = [producer EXCEPT !.pc[c] = "raised"]
       ELSE producer' = [producer EXCEPT !.pc[c] = "publishing",
                                         !._exchange = producer.mine[c],
                                         !.used[c] = producer.mine[c],
                                         !.stored[c] = producer._connection]
    /\ UNCHANGED <<lifecycle, store, ttl, expired, msgs, call>>

\* rabbitmq.py:38-53 (called at event_service.py:42)  exchange.publish on the
\* exchange handed over: None has no publish, a closed connection raises
exchange_publish(c) ==
    /\ producer.pc[c] = "publishing"
    /\ producer' = [producer EXCEPT !.pc[c] =
          IF producer.used[c] = 0 \/ producer.used[c] \in producer.closed
          THEN "raised" ELSE "published"]
    /\ UNCHANGED <<lifecycle, store, ttl, expired, msgs, call>>

\* the broker or the network closes a connection of the producer
connection_lost ==
    /\ \E n \in (1 .. producer.opened) \ producer.closed :
          producer' = [producer EXCEPT !.closed = @ \cup {n}]
    /\ UNCHANGED <<lifecycle, store, ttl, expired, msgs, call>>

PublishCall == \E c \in Callers : publish_call(c)

ConnectionOpened == \E c \in Callers : connection_opened(c)

ExchangeDeclared == \E c \in Callers : exchange_declared(c)

ExchangePublish == \E c \in Callers : exchange_publish(c)

NextProducer ==
    \/ PublishCall
    \/ ConnectionOpened
    \/ ExchangeDeclared
    \/ ExchangePublish
    \/ connection_lost

SpecProducer == Init /\ [][NextProducer]_vars

(* --------------------------- main() and stop() ------------------------ *)

\* what can end main()'s wait (or an await of start()) from outside
Interrupts == {"KeyboardInterrupt", "CancelledError", "Exception"}

\* main() without its `finally`: stop() called at the end of each except
\* clause, so an exception no clause catches leaves main() without it
MainExit_except_only(kind) ==
    [caught |-> kind \in {"KeyboardInterrupt", "Exception"},
     stop   |-> kind \in {"KeyboardInterrupt", "Exception"}]

\* consumer.py:177-188  the try statement of main(): which exceptions its
\* except clauses catch (CancelledError is a BaseException: neither clause),
\* and whether consumer.stop() runs (the finally clause: always)
MainExit(kind) ==
    [caught |-> kind \in {"KeyboardInterrupt", "Exception"},
     stop   |-> TRUE]

\* the exception main() is leaving its try block with
Raised ==
    IF mainpc = "start_failed" THEN "Exception" ELSE log[Len(log)][2]

\* the exception that went into the finally clause uncaught, None if caught
Uncaught ==
    LET n == CHOOSE k \in 1 .. Len(log) : log[k][1] = "finally"
    IN IF MainExit(log[n][2]).caught THEN None ELSE log[n][2]

\* consumer.py:178-181  a signal, a cancellation or an error reaches main()
\* while it awaits start() or the never-set Event
Interrupt ==
    /\ mainpc \in {"connect_redis", "connect_rabbitmq", "consume", "running"}
    /\ \E kind \in Interrupts :
        /\ mainpc' = "interrupted"
        /\ log' = Append(log, <<"interrupt", kind>>)
    /\ UNCHANGED <<redis_client, connection, channel, queue, consuming,
                   store, ttl, expired, msgs, call, producer>>

\* the finally clause calling a stop() that closes the status-store
\* connection first and returns
main_finally_store_first ==
    /\ mainpc \in {"start_failed", "interrupted"}
    /\ mainpc' = "stop_redis"
    /\ log' = Append(log, <<"finally", Raised>>) \o << <<"stop", TRUE>> >>
    /\ UNCHANGED <<redis_client, connection, channel, queue, consuming,
                   store, ttl, expired, msgs, call, producer>>

\* consumer.py:183-188  the except clauses, then the finally clause
main_finally ==
    /\ mainpc \in {"start_failed", "interrupted"}
    /\ IF MainExit(Raised).stop
       THEN /\ mainpc' = "stop_queue"
            /\ log' = Append(log, <<"finally", Raised>>) \o << <<"stop", TRUE>> >>
       ELSE /\ mainpc' = "raised"
            /\ log' = Append(log, <<"propagate", Raised>>)
    /\ UNCHANGED <<redis_client, connection, channel, queue, consuming,
                   store, ttl, expired, msgs, call, producer>>

\* where stop() goes after a step: on, or out of stop() and main() with the
\* step's exception (no step of stop() is inside a try)
AfterStopStep(ok, next) == IF ok THEN next ELSE "raised"

\* consumer.py:158-159
stop_queue_cancel ==
    /\ mainpc = "stop_queue"
    /\ IF queue = None
       THEN mainpc' = "stop_channel" /\ UNCHANGED <<consuming, log>>
       ELSE \E ok \in BOOLEAN :
            /\ mainpc' = AfterStopStep(ok, "stop_channel")
            /\ consuming' = IF ok THEN FALSE ELSE consuming
            /\ log' = Append(log, <<"queue.cancel", ok>>)
    /\ UNCHANGED <<redis_client, connection, channel, queue, store, ttl, expired, msgs, call, producer>>

\* the broker puts the unacknowledged messages of a closed channel back
Requeued ==
    [i \in 1 .. Len(msgs) |->
        IF msgs[i].broker = "unacked" THEN [msgs[i] EXCEPT !.broker = "ready"] ELSE msgs[i]]

\* consumer.py:161-162
stop_channel_close ==
    /\ mainpc = "stop_channel"
    /\ IF channel = None
       THEN mainpc' = "stop_connection" /\ UNCHANGED <<channel, consuming, msgs, log>>
       ELSE \E ok \in BOOLEAN :
            /\ mainpc' = AfterStopStep(ok, "stop_connection")
            /\ channel' = IF ok THEN "closed" ELSE channel
            /\ consuming' = IF ok THEN FALSE ELSE consuming
            /\ msgs' = IF ok THEN Requeued ELSE msgs
            /\ log' = Append(log, <<"channel.close", ok>>)
    /\ UNCHANGED <<redis_client, connection, queue, store, ttl, expired, call, producer>>

\* consumer.py:164-165
stop_connection_close ==
    /\ mainpc = "stop_connection"
    /\ IF connection = None
       THEN mainpc' = "stop_redis" /\ UNCHANGED <<connection, channel, consuming, msgs, log>>
       ELSE \E ok \in BOOLEAN :
            /\ mainpc' = AfterStopStep(ok, "stop_redis")
            /\ connection' = IF ok THEN "closed" ELSE connection
            /\ channel' = IF ok /\ channel # None THEN "closed" ELSE channel
            /\ consuming' = IF ok THEN FALSE ELSE consuming
            /\ msgs' = IF ok THEN Requeued ELSE msgs
            /\ log' = Append(log, <<"connection.close", ok>>)
    /\ UNCHANGED <<redis_client, queue, store, ttl, expired, call, producer>>

\* consumer.py:167-170  the last step; stop() and the finally clause end,
\* and main() returns or goes on raising what no except clause caught
stop_redis_close ==
    /\ mainpc = "stop_redis"
    /\ IF redis_client = None
       THEN /\ mainpc' = IF Uncaught = None THEN "returned" ELSE "raised"
            /\ UNCHANGED <<redis_client, log>>
       ELSE \E ok \in BOOLEAN :
            /\ mainpc' = IF ok /\ Uncaught = None THEN "returned" ELSE "raised"
            /\ redis_client' = IF ok THEN "closed" ELSE redis_client
            /\ log' = Append(log, <<"redis_client.close", ok>>)
    /\ UNCHANGED <<connection, channel, queue, consuming, store, ttl, expired, msgs, call, producer>>

InFlight(m) == m.pc \notin {"queued", "done"}

\* consumer.py:192  asyncio.run(main()) after main() has ended: the callback
\* tasks still running are cancelled where they await (CancelledError is
\* not an Exception, so the except block of _process_message does not run)
\* and the process ends, so the broker requeues what was unacknowledged
asyncio_run_exit ==
    /\ mainpc \in {"returned", "raised"}
    /\ mainpc' = "exited"
    /\ consuming' = FALSE
    /\ msgs' = [i \in 1 .. Len(msgs) |->
          LET m == msgs[i]
              b == IF m.broker = "unacked" THEN "ready" ELSE m.broker
          IN IF InFlight(m)
             THEN [m EXCEPT !.broker = b, !.pc = "done", !.exc = "CancelledError",
                            !.trace = Append(@, Step("cancelled", "CancelledError", TRUE, None))]
             ELSE [m EXCEPT !.broker = b]]
    /\ log' = Append(log, <<"exit", mainpc = "returned">>)
    /\ UNCHANGED <<redis_client, connection, channel, queue, store, ttl, expired, call, producer>>

NextLifecycle ==
    \/ connect_redis
    \/ connect_rabbitmq
    \/ start_consume
    \/ Interrupt
    \/ main_finally
    \/ stop_queue_cancel
    \/ stop_channel_close
    \/ stop_connection_close
    \/ stop_redis_close
    \/ asyncio_run_exit
    \/ publish_task_event
    \/ OnMessage
    \/ DedupCheck
    \/ MarkPending
    \/ ProcessNotification
    \/ MarkProcessed
    \/ MarkFailed
    \/ ProcessContextExit

SpecLifecycle == Init /\ [][NextLifecycle]_vars

(* ------------------------- reading a delivery ------------------------- *)

Msgs == 1 .. Len(msgs)

StepsOf(m, op) == {n \in 1 .. Len(m.trace) : m.trace[n].op = op}

Dispatches(m) == Cardinality(StepsOf(m, "dispatch"))

DispatchOk(m) == \E n \in StepsOf(m, "dispatch") : m.trace[n].ok

DispatchRaised(m) == \E n \in StepsOf(m, "dispatch") : ~m.trace[n].ok

Wrote(m, status) ==
    \E n \in StepsOf(m, "set") : m.trace[n].arg = status /\ m.trace[n].ok

Tried(m, status) == \E n \in StepsOf(m, "set") : m.trace[n].arg = status

HasRead(m) == Len(m.trace) >= 2 /\ m.trace[2].op = "get"

\* the dedup read returned, and what the store held was `processed`
DedupHit(m) ==
    HasRead(m) /\ m.trace[2].ok /\ m.trace[2].arg = NotificationStatus.PROCESSED

ReadFailed(m) == HasRead(m) /\ ~m.trace[2].ok

ReadExpired(m) == HasRead(m) /\ m.trace[2].ok /\ m.trace[2].arg = "expired"

Ended(m) == m.pc = "done"

\* after the dedup read the delivery goes on as for a new event: the
\* `pending` write is attempted, then the dispatcher is invoked
ProcessedAsNew(m) ==
    /\ Len(m.trace) = 2 => m.pc = "set_pending"
    /\ Len(m.trace) >= 3 =>
          m.trace[3].op = "set" /\ m.trace[3].arg = NotificationStatus.PENDING
    /\ Len(m.trace) = 3 => m.pc = "dispatch"
    /\ Len(m.trace) >= 4 => m.trace[4].op = "dispatch" /\ m.trace[4].arg # None

(* ------------------------------ claims -------------------------------- *)

\* C1: a delivery whose dedup read finds `processed` (store readable, record
\* not expired) invokes the dispatcher zero times, so a delivery that
\* dispatched and recorded `processed` followed by such a delivery of the
\* same event_id makes exactly one dispatch in total.
C1_Idempotence ==
    /\ \A i \in Msgs : Dispatches(msgs[i]) <= 1
    /\ \A i \in Msgs : DedupHit(msgs[i]) => Dispatches(msgs[i]) = 0
    /\ \A i, j \in Msgs :
          ( /\ i # j
            /\ msgs[i].event.event_id = msgs[j].event.event_id
            /\ Ended(msgs[i]) /\ Wrote(msgs[i], NotificationStatus.PROCESSED)
            /\ Ended(msgs[j]) /\ DedupHit(msgs[j]) )
          => Dispatches(msgs[i]) + Dispatches(msgs[j]) = 1

C1_Witness ==
    \E i, j \in Msgs :
        /\ i # j
        /\ msgs[i].event.event_id = msgs[j].event.event_id
        /\ Ended(msgs[i]) /\ DispatchOk(msgs[i])
        /\ Wrote(msgs[i], NotificationStatus.PROCESSED)
        /\ msgs[i].broker = "acked"
        /\ Ended(msgs[j]) /\ DedupHit(msgs[j]) /\ msgs[j].broker = "acked"

\* C2: when the dispatcher raises, the message is never acknowledged in that
\* delivery, the handler's exception is what leaves _process_message (the
\* message is rejected), the `failed` write is attempted, and when the store
\* accepts that write the stored status is `failed`.
C2_AtLeastOnceOnFailure ==
    \A i \in Msgs :
        DispatchRaised(msgs[i]) =>
            /\ msgs[i].broker # "acked"
            /\ StepsOf(msgs[i], "ack") = {}
            /\ msgs[i].exc = "HandlerError"
            /\ msgs[i].pc \in {"set_failed", "settle", "done"}
            /\ msgs[i].pc \in {"settle", "done"} =>
                  Tried(msgs[i], NotificationStatus.FAILED)
            /\ Ended(msgs[i]) =>
                  /\ msgs[i].broker = "rejected"
                  /\ msgs[i].trace[Len(msgs[i].trace)] =
                        Step("reject", "HandlerError", TRUE, None)
            /\ \A n \in StepsOf(msgs[i], "set") :
                  (msgs[i].trace[n].arg = NotificationStatus.FAILED /\ msgs[i].trace[n].ok)
                  => msgs[i].trace[n].after[1] = NotificationStatus.FAILED

C2_Witness ==
    \E i \in Msgs :
        /\ Ended(msgs[i]) /\ DispatchRaised(msgs[i])
        /\ Wrote(msgs[i], NotificationStatus.FAILED)
        /\ msgs[i].broker = "rejected"
        /\ store[Key(msgs[i].event.event_id)] = NotificationStatus.FAILED

\* C3: a message whose processing failed (handler exception or decode
\* failure) is still in the queue, ready or unacknowledged, so that the
\* broker can deliver it again.
C3_FailedMessageStaysQueued ==
    \A i \in Msgs :
        msgs[i].exc # None => msgs[i].broker \in {"ready", "unacked"}

\* C4: when the dedup read fails, processing goes on as for a new event
\* whatever the store holds: `pending` is written next, the dispatcher is
\* invoked, and no error is raised because of the read.
C4_FailOpen ==
    \A i \in Msgs :
        ReadFailed(msgs[i]) =>
            /\ ProcessedAsNew(msgs[i])
            /\ msgs[i].exc \in {None, "HandlerError"}
            /\ msgs[i].exc = "HandlerError" => DispatchRaised(msgs[i])

C4_Witness ==
    \E i \in Msgs :
        /\ ReadFailed(msgs[i])
        /\ msgs[i].trace[2].arg = NotificationStatus.PROCESSED
        /\ Ended(msgs[i]) /\ DispatchOk(msgs[i])
        /\ msgs[i].exc = None /\ msgs[i].broker = "acked"

\* C5: failing status writes change no outcome: no store error ever leaves
\* _set_notification_status, a delivery whose dispatch succeeded ends
\* acknowledged, and a delivery whose dispatch raised ends with the handler's
\* error.
C5_StoreWriteFailuresSwallowed ==
    \A i \in Msgs :
        /\ msgs[i].exc # "StoreError"
        /\ (Ended(msgs[i]) /\ DispatchOk(msgs[i])) =>
              msgs[i].exc = None /\ msgs[i].broker = "acked"
        /\ (Ended(msgs[i]) /\ DispatchRaised(msgs[i])) =>
              msgs[i].exc = "HandlerError" /\ msgs[i].broker = "rejected"

C5_Witness ==
    \E i, j \in Msgs :
        /\ Ended(msgs[i]) /\ DispatchOk(msgs[i]) /\ msgs[i].broker = "acked"
        /\ Cardinality(StepsOf(msgs[i], "set")) = 2
        /\ \A n \in StepsOf(msgs[i], "set") : ~msgs[i].trace[n].ok
        /\ Ended(msgs[j]) /\ DispatchRaised(msgs[j]) /\ msgs[j].exc = "HandlerError"
        /\ Cardinality(StepsOf(msgs[j], "set")) = 2
        /\ \A n \in StepsOf(msgs[j], "set") : ~msgs[j].trace[n].ok

\* C6: a stored `processed` is never overwritten with `pending` or `failed`;
\* it only changes by expiring to absent.
C6_NoTransitionOutOfProcessed ==
    [][\A k \in Keys :
          store[k] = NotificationStatus.PROCESSED =>
              \/ store'[k] = NotificationStatus.PROCESSED
              \/ store'[k] = None /\ ttl'[k] = 0 /\ ttl[k] <= TickSeconds]_vars

\* C7: a message whose event_type is outside the enumeration is dropped
\* quietly: processing it does not raise, no `failed` is written for it, and
\* it is not put back for another delivery.
UnknownType(body) ==
    body.json /\ body.event_id \in EventIds /\ body.event_type \notin EventType

C7_UnknownTypeDropped ==
    \A i \in Msgs :
        (UnknownType(msgs[i].body) /\ msgs[i].broker # "ready") =>
            /\ msgs[i].exc = None
            /\ ~Tried(msgs[i], NotificationStatus.FAILED)
            /\ Ended(msgs[i]) => msgs[i].broker = "acked"

\* C8: a dedup read that finds `processed` ends the delivery at once: the
\* message is acknowledged, the dispatcher is not invoked, no status write is
\* attempted by it, so it leaves the record and its remaining TTL alone.
C8_DedupHitIsPureAck ==
    \A i \in Msgs :
        DedupHit(msgs[i]) =>
            /\ msgs[i].pc \in {"settle", "done"}
            /\ msgs[i].exc = None
            /\ Dispatches(msgs[i]) = 0
            /\ StepsOf(msgs[i], "set") = {}
            /\ Ended(msgs[i]) =>
                  /\ msgs[i].broker = "acked"
                  /\ msgs[i].trace[Len(msgs[i].trace)] = Step("ack", None, TRUE, None)

C8_Witness ==
    \E i \in Msgs :
        /\ DedupHit(msgs[i]) /\ Ended(msgs[i]) /\ msgs[i].broker = "acked"
        /\ store[Key(msgs[i].event.event_id)] = NotificationStatus.PROCESSED
        /\ ttl[Key(msgs[i].event.event_id)] = StatusTtl - TickSeconds

\* C9: for a body that does not decode into a TaskEvent, the decode error
\* leaves _process_message, the message is not acknowledged, the dispatcher
\* is not invoked and no status write is attempted.
C9_DecodeFailure ==
    \A i \in Msgs :
        (~Decode(msgs[i].body).ok /\ msgs[i].broker # "ready") =>
            /\ msgs[i].exc = "DecodeError"
            /\ msgs[i].broker # "acked"
            /\ Dispatches(msgs[i]) = 0
            /\ StepsOf(msgs[i], "set") = {}

\* C10: every status write stores its record with 604800 seconds to live;
\* a record is absent exactly when its time has run out; and a delivery
\* whose dedup read finds the `processed` record expired is processed as
\* new: `pending` is written and the dispatcher is invoked.
C10_TtlExpiry ==
    /\ \A k \in Keys :
          /\ ttl[k] \in 0 .. 604800
          /\ store[k] = None <=> ttl[k] = 0
    /\ \A i \in Msgs :
          \A n \in StepsOf(msgs[i], "set") :
              msgs[i].trace[n].ok =>
                  msgs[i].trace[n].after = <<msgs[i].trace[n].arg, 604800>>
    /\ \A i \in Msgs : ReadExpired(msgs[i]) => ProcessedAsNew(msgs[i])

C10_Witness ==
    \E i \in Msgs :
        /\ ReadExpired(msgs[i])
        /\ Wrote(msgs[i], NotificationStatus.PENDING)
        /\ DispatchOk(msgs[i])
        /\ Ended(msgs[i])

\* C11: start() connects to the status store, then to the broker (declaring
\* the topology), and only then registers the consume callback; when one of
\* the connections or the queue initialisation fails, start() raises, no
\* consumption is registered and no message is delivered; a message is only
\* ever delivered after both connections were established.
StartOrder == <<"connect_redis", "connect_rabbitmq", "consume">>

StartSteps == {n \in 1 .. Len(log) : log[n][1] \in {StartOrder[k] : k \in 1 .. 3}}

StartCompleted ==
    /\ Len(log) >= 3
    /\ \A n \in 1 .. 3 : log[n] = <<StartOrder[n], TRUE>>

StartRaised == \E n \in StartSteps : ~log[n][2]

Delivered(m) == m.broker # "ready" \/ m.trace # << >>

C11_StartupSequence ==
    /\ \A n \in StartSteps : n <= 3 /\ log[n][1] = StartOrder[n]
    /\ \A n \in StartSteps : n > 1 => log[n - 1][2]
    /\ consuming => StartCompleted
    /\ consuming =>
          redis_client # None /\ connection = "open" /\ channel = "open" /\ queue = "declared"
    /\ (\E i \in Msgs : Delivered(msgs[i])) => StartCompleted
    /\ StartRaised =>
          /\ mainpc = "start_failed"
          /\ ~consuming
          /\ \A n \in 1 .. Len(log) : log[n][1] # "consume" \/ ~log[n][2]
          /\ \A i \in Msgs : ~Delivered(msgs[i])

C11_Witness ==
    /\ StartCompleted
    /\ \E i \in Msgs : Ended(msgs[i]) /\ msgs[i].broker = "acked"
    /\ \E i \in Msgs : msgs[i].broker = "unacked"

\* C12: consumer.stop() is invoked on every exit path of main(): when
\* start() fails, when the wait is interrupted by a signal or a
\* cancellation, and when an exception reaches the main loop, main() does
\* not end before stop() was called.
MainEnded == mainpc \in {"returned", "raised", "exited"}

StopInvoked == \E n \in 1 .. Len(log) : log[n] = <<"stop", TRUE>>

Interrupted(kind) == \E n \in 1 .. Len(log) : log[n] = <<"interrupt", kind>>

C12_StopOnEveryExitPath ==
    /\ MainEnded => StopInvoked
    /\ MainEnded => (StartRaised \/ \E kind \in Interrupts : Interrupted(kind))
    /\ mainpc \in {"stop_queue", "stop_channel", "stop_connection", "stop_redis"} => StopInvoked

C12_Witness ==
    /\ mainpc = "raised"
    /\ Interrupted("CancelledError")
    /\ StopInvoked
    /\ log[Len(log)] = <<"redis_client.close", TRUE>>

\* C13: stop() attempts each of its four steps (cancel the consumption,
\* close the channel, close the broker connection, close the status-store
\* connection) for every resource that was acquired, even when an earlier
\* step raised.
Attempted(step) == \E n \in 1 .. Len(log) : log[n][1] = step

C13_StopStepwiseRobust ==
    (MainEnded /\ StopInvoked) =>
        /\ queue # None => Attempted("queue.cancel")
        /\ channel # None => Attempted("channel.close")
        /\ connection # None => Attempted("connection.close")
        /\ redis_client # None => Attempted("redis_client.close")

\* C14: stop() closes neither the channel, nor the broker connection, nor
\* the status-store connection while a message is between its `pending`
\* write and its terminal status write, and once main() is over no event is
\* left `pending` by a delivery that never attempted `processed` or `failed`.
MidFlight(m) == m.pc \in {"dispatch", "set_processed", "set_failed"}

Orphaned(m) ==
    /\ Wrote(m, NotificationStatus.PENDING)
    /\ ~Tried(m, NotificationStatus.PROCESSED)
    /\ ~Tried(m, NotificationStatus.FAILED)
    /\ store[Key(m.event.event_id)] = NotificationStatus.PENDING

C14_NoInFlightDropped ==
    /\ (channel = "closed" \/ connection = "closed" \/ redis_client = "closed") =>
          \A i \in Msgs : ~MidFlight(msgs[i])
    /\ mainpc = "exited" => \A i \in Msgs : ~Orphaned(msgs[i])

\* C15: in every reachable state the number of messages delivered to the
\* consumer and neither acknowledged nor rejected yet, that is the number of
\* _process_message invocations in flight, is at most prefetch_count = 10.
C15_PrefetchBound ==
    /\ prefetch_count = 10
    /\ Cardinality({i \in Msgs : msgs[i].broker = "unacked"}) <= 10
    /\ Cardinality({i \in Msgs : InFlight(msgs[i])}) <= 10

C15_Witness ==
    /\ Cardinality({i \in Msgs : msgs[i].broker = "unacked"}) = 10
    /\ \E i \in Msgs : msgs[i].broker = "ready"
    /\ \E i \in Msgs : msgs[i].broker = "rejected"
    /\ consuming

\* C16: for a valid event of any of the four types and any subset of the
\* keys present in its data, dispatch does not raise; the status-changed
\* handler uses the given old_status / new_status where present and the
\* literal "unknown" for each one that is absent.
Given(d, k) == IF k \in DOMAIN d THEN d[k] ELSE "unknown"

C16_HandlersTolerateMissingKeys ==
    call.returned =>
        /\ ~call.result.raised
        /\ call.fault = None => call.exc = None
        /\ call.result.message # << >>
        /\ call.event_type = "task.status_changed" =>
              /\ call.result.message[3] = Given(call.data, "old_status")
              /\ call.result.message[4] = Given(call.data, "new_status")

C16_Witness ==
    /\ call.returned
    /\ call.event_type = "task.status_changed"
    /\ DOMAIN call.data = {"new_status"}
    /\ call.result.message[3] = "unknown"
    /\ call.result.message[4] = call.data["new_status"]

\* C17: a message is acknowledged only if, in that delivery, the dedup read
\* found `processed`, or the dispatcher returned without raising and the
\* `processed` write was attempted before the ack; no message is
\* acknowledged before or without its dispatch succeeding.
Acked(m) == m.broker = "acked"

AckedAfterSuccess(m) ==
    \E d \in StepsOf(m, "dispatch"), w \in StepsOf(m, "set"), a \in StepsOf(m, "ack") :
        /\ m.trace[d].ok
        /\ m.trace[w].arg = NotificationStatus.PROCESSED
        /\ d < w /\ w < a
        /\ a = Len(m.trace)

C17_AckOnlyAfterSuccess ==
    /\ \A i \in Msgs :
          Acked(msgs[i]) =>
              \/ DedupHit(msgs[i]) /\ Dispatches(msgs[i]) = 0
              \/ AckedAfterSuccess(msgs[i])
    /\ \A i \in Msgs :
          (StepsOf(msgs[i], "ack") # {}) => Acked(msgs[i]) /\ msgs[i].exc = None
    /\ \A i \in Msgs :
          (DispatchRaised(msgs[i]) \/ msgs[i].exc # None) => ~Acked(msgs[i])

C17_Witness ==
    \E i, j \in Msgs :
        /\ Acked(msgs[i]) /\ AckedAfterSuccess(msgs[i])
        /\ Acked(msgs[j]) /\ DedupHit(msgs[j])
        /\ msgs[i].event.event_id = msgs[j].event.event_id

\* C18: a delivery that invokes the dispatcher runs decode, dedup read,
\* `pending` write attempt, dispatch, terminal write attempt (`processed`
\* after a return, `failed` after an exception), settle, in that order: the
\* `pending` attempt precedes the dispatcher call, and no `processed` or
\* `failed` write of the delivery precedes the dispatcher's completion.
StepOrder(m) ==
    /\ Len(m.trace) <= 6
    /\ m.trace[1].op = "decode" /\ m.trace[1].ok
    /\ m.trace[2].op = "get"
    /\ m.trace[3].op = "set" /\ m.trace[3].arg = NotificationStatus.PENDING
    /\ m.trace[4].op = "dispatch"
    /\ Len(m.trace) = 4 =>
          m.pc = IF m.trace[4].ok THEN "set_processed" ELSE "set_failed"
    /\ Len(m.trace) >= 5 =>
          /\ m.trace[5].op = "set"
          /\ m.trace[5].arg = IF m.trace[4].ok THEN NotificationStatus.PROCESSED
                                                ELSE NotificationStatus.FAILED
    /\ Len(m.trace) = 5 => m.pc = "settle"
    /\ Len(m.trace) = 6 =>
          /\ m.trace[6].op = IF m.trace[4].ok THEN "ack" ELSE "reject"
          /\ m.pc = "done"

C18_StepOrder ==
    /\ \A i \in Msgs : Dispatches(msgs[i]) >= 1 => StepOrder(msgs[i])
    /\ \A i \in Msgs : msgs[i].pc = "dispatch" =>
          /\ Len(msgs[i].trace) = 3
          /\ msgs[i].trace[3].op = "set"
          /\ msgs[i].trace[3].arg = NotificationStatus.PENDING
    /\ \A i \in Msgs : \A w \in StepsOf(msgs[i], "set") :
          msgs[i].trace[w].arg \in {NotificationStatus.PROCESSED, NotificationStatus.FAILED} =>
              \E d \in StepsOf(msgs[i], "dispatch") : d < w

C18_Witness ==
    \E i, j \in Msgs :
        /\ Len(msgs[i].trace) = 6 /\ DispatchOk(msgs[i])
        /\ msgs[i].trace[5].arg = NotificationStatus.PROCESSED
        /\ Len(msgs[j].trace) = 6 /\ DispatchRaised(msgs[j])
        /\ msgs[j].trace[5].arg = NotificationStatus.FAILED
        /\ msgs[j].trace[6].op = "reject"

\* C19: an event's stored status only changes along absent -> pending,
\* pending -> processed, pending -> failed, failed -> pending, and expiry to
\* absent: `processed` and `failed` are only ever written over a stored
\* `pending`, whatever the interleaving and the write failures.
StatusTransitions ==
    {<<None, NotificationStatus.PENDING>>,
     <<NotificationStatus.PENDING, NotificationStatus.PROCESSED>>,
     <<NotificationStatus.PENDING, NotificationStatus.FAILED>>,
     <<NotificationStatus.FAILED, NotificationStatus.PENDING>>}

Expires(k) == store'[k] = None /\ ttl'[k] = 0 /\ ttl[k] <= TickSeconds

C19_StatusStateMachine ==
    [][\A k \in Keys :
          \/ store'[k] = store[k]
          \/ <<store[k], store'[k]>> \in StatusTransitions
          \/ Expires(k)]_vars

\* C20: every delivery ends with its message either acknowledged or
\* rejected, one of the two and once, the decode-failure path and the path
\* where the `failed` write itself fails included: a delivery in flight
\* always has a next step, it takes at most six, and none is left unsettled
\* or both acknowledged and rejected.
Settlements(m) == StepsOf(m, "ack") \cup StepsOf(m, "reject")

C20_SettledExactlyOnce ==
    \A i \in Msgs :
        LET m == msgs[i]
        IN /\ Cardinality(Settlements(m)) <= 1
           /\ Len(m.trace) <= 6
           /\ InFlight(m) => /\ m.broker = "unacked"
                             /\ Settlements(m) = {}
                             /\ ENABLED Proceed(i)
           /\ m.pc = "queued" => m.broker = "ready" /\ m.trace = << >>
           /\ Ended(m) => /\ Cardinality(Settlements(m)) = 1
                          /\ Settlements(m) = {Len(m.trace)}
                          /\ m.trace[Len(m.trace)].ok
                          /\ m.broker \in {"acked", "rejected"}
                          /\ m.broker = "acked" <=> StepsOf(m, "ack") # {}
                          /\ m.broker = "rejected" <=> StepsOf(m, "reject") # {}

C20_Witness ==
    \E i, j \in Msgs :
        /\ Ended(msgs[i]) /\ ~msgs[i].trace[1].ok /\ msgs[i].broker = "rejected"
        /\ Ended(msgs[j]) /\ DispatchRaised(msgs[j]) /\ msgs[j].broker = "rejected"
        /\ Tried(msgs[j], NotificationStatus.FAILED)
        /\ ~Wrote(msgs[j], NotificationStatus.FAILED)

\* C21: the resources are acquired in the order status-store connection,
\* broker connection, channel, queue / consumption, and stop() releases them
\* in the order cancel consumption, close channel, close broker connection,
\* close status-store connection: the store is never closed before the
\* broker connection, and a resource that was never acquired is skipped
\* without an error.
StopOrder == <<"queue.cancel", "channel.close", "connection.close", "redis_client.close">>

\* where in the log stop() attempted its step number s, 0 if it did not
AttemptAt(s) ==
    IF \E n \in 1 .. Len(log) : log[n][1] = StopOrder[s]
    THEN CHOOSE n \in 1 .. Len(log) : log[n][1] = StopOrder[s]
    ELSE 0

\* the resource that step s of stop() releases
Acquired(s) ==
    CASE s = 1 -> queue # None
      [] s = 2 -> channel # None
      [] s = 3 -> connection # None
      [] s = 4 -> redis_client # None

StopStepRaised == \E n \in 1 .. Len(log) : \E s \in 1 .. 4 : log[n] = <<StopOrder[s], FALSE>>

C21_ReverseAcquisitionOrder ==
    /\ queue # None => channel # None
    /\ channel # None => connection # None
    /\ connection # None => redis_client # None
    /\ \A s \in 1 .. 4 :
          Cardinality({n \in 1 .. Len(log) : log[n][1] = StopOrder[s]}) <= 1
    /\ \A s \in 1 .. 4 : AttemptAt(s) # 0 => Acquired(s) /\ StopInvoked
    /\ \A s, t \in 1 .. 4 :
          (s < t /\ AttemptAt(t) # 0) =>
              \/ ~Acquired(s)
              \/ AttemptAt(s) # 0 /\ AttemptAt(s) < AttemptAt(t) /\ log[AttemptAt(s)][2]
    /\ redis_client = "closed" => connection \in {None, "closed"}
    /\ connection = "closed" => channel \in {None, "closed"}
    /\ (MainEnded /\ StopInvoked /\ ~StopStepRaised) =>
          /\ \A s \in 1 .. 4 : Acquired(s) => AttemptAt(s) # 0
          /\ mainpc = "raised" => Uncaught # None

C21_Witness ==
    /\ mainpc = "returned"
    /\ queue = None /\ channel = None
    /\ connection = "closed" /\ redis_client = "closed"
    /\ AttemptAt(1) = 0 /\ AttemptAt(2) = 0
    /\ AttemptAt(3) # 0 /\ AttemptAt(3) < AttemptAt(4)

\* C22: deliveries run independently and concurrently: while the handler of
\* one message has not completed, any other message can still be delivered
\* (within the prefetch window), dispatched, get its terminal status written
\* and be acknowledged; no order between different messages is imposed.
HandlerRunning(m) == m.pc = "dispatch"

NextToDeliver(j) ==
    /\ msgs[j].broker = "ready"
    /\ \A k \in 1 .. (j - 1) : msgs[k].broker # "ready"

C22_IndependentDeliveries ==
    \A i, j \in Msgs :
        (i # j /\ HandlerRunning(msgs[i])) =>
            /\ InFlight(msgs[j]) => ENABLED Proceed(j)
            /\ (consuming /\ NextToDeliver(j)) => ENABLED Deliver(j)
            /\ msgs[j].pc = "dispatch" => ENABLED Dispatch(j)
            /\ msgs[j].pc = "set_processed" => ENABLED SetProcessed(j)
            /\ msgs[j].pc = "settle" => ENABLED Settle(j)

C22_Witness ==
    \E i, j \in Msgs :
        /\ i < j
        /\ HandlerRunning(msgs[i])
        /\ Ended(msgs[j]) /\ Acked(msgs[j]) /\ DispatchOk(msgs[j])
        /\ Wrote(msgs[j], NotificationStatus.PROCESSED)

\* C23: a delivery whose `pending` write fails records `failed` for the event
\* and is treated as failed: it is not dispatched and acknowledged as a
\* success.
PendingWriteFailed(m) ==
    \E n \in StepsOf(m, "set") :
        m.trace[n].arg = NotificationStatus.PENDING /\ ~m.trace[n].ok

C23_PendingFailureRecordsFailed ==
    \A i \in Msgs :
        PendingWriteFailed(msgs[i]) =>
            /\ ~Acked(msgs[i])
            /\ ~Tried(msgs[i], NotificationStatus.PROCESSED)
            /\ Ended(msgs[i]) => Tried(msgs[i], NotificationStatus.FAILED)

\* C24: each of the four event types has exactly one registered handler, and
\* process_notification invokes exactly that handler, once per call
\* (created, updated, status_changed and deleted each to the handler of
\* that name); an exception the handler raises reaches the caller unchanged.
Routing ==
    {<<"task.created", "_handle_task_created">>,
     <<"task.updated", "_handle_task_updated">>,
     <<"task.status_changed", "_handle_task_status_changed">>,
     <<"task.deleted", "_handle_task_deleted">>}

\* the first part of the message each handler logs
Announces ==
    {<<"_handle_task_created", "created">>,
     <<"_handle_task_updated", "updated">>,
     <<"_handle_task_status_changed", "status changed">>,
     <<"_handle_task_deleted", "deleted">>}

C24_DispatcherRouting ==
    /\ DOMAIN handler_map = EventType
    /\ \A t \in EventType : <<t, handler_map[t]>> \in Routing
    /\ \A t, u \in EventType : handler_map[t] = handler_map[u] => t = u
    /\ ~call.returned => call.invoked = << >>
    /\ call.returned =>
          /\ Len(call.invoked) = 1
          /\ <<call.event_type, call.invoked[1]>> \in Routing
          /\ <<call.invoked[1], call.result.message[1]>> \in Announces
          /\ call.exc = call.fault

C24_Witness ==
    /\ call.returned
    /\ call.event_type = "task.deleted"
    /\ call.invoked = <<"_handle_task_deleted">>
    /\ call.fault # None
    /\ call.exc = call.fault

\* C25: for one event_id, whatever the interleaving of concurrent deliveries
\* of duplicates (store available, record not expired), the dispatcher
\* completes successfully at most once; a delivery that starts while another
\* one has the event `pending` does not dispatch again.
StoreAvailable(m) ==
    \A n \in StepsOf(m, "get") \cup StepsOf(m, "set") : m.trace[n].ok

SameEvent(m, o) ==
    m.event.ok /\ o.event.ok /\ m.event.event_id = o.event.event_id

ReadPending(m) ==
    HasRead(m) /\ m.trace[2].ok /\ m.trace[2].arg = NotificationStatus.PENDING

C25_AtMostOnceUnderConcurrency ==
    \A i, j \in Msgs :
        (/\ i # j
         /\ SameEvent(msgs[i], msgs[j])
         /\ StoreAvailable(msgs[i]) /\ StoreAvailable(msgs[j])
         /\ ~ReadExpired(msgs[i]) /\ ~ReadExpired(msgs[j])) =>
            /\ ~(DispatchOk(msgs[i]) /\ DispatchOk(msgs[j]))
            /\ ReadPending(msgs[j]) => Dispatches(msgs[j]) = 0

\* C26 (as stated): once a message has been acknowledged after a successful
\* dispatch, the status stored for its event_id is `processed` until the
\* record expires: never absent, `pending` or `failed`.
AckedSuccess(m) == Acked(m) /\ DispatchOk(m)

ProcessedExpired(m) ==
    /\ Wrote(m, NotificationStatus.PROCESSED)
    /\ store[Key(m.event.event_id)] = None
    /\ Key(m.event.event_id) \in expired

C26_AckedImpliesRecorded ==
    \A i \in Msgs :
        AckedSuccess(msgs[i]) =>
            \/ store[Key(msgs[i].event.event_id)] = NotificationStatus.PROCESSED
            \/ ProcessedExpired(msgs[i])

\* C26 (amended): a message acknowledged after a successful dispatch had its
\* `processed` write attempted; when that write was applied it left
\* `processed` with the full TTL, and afterwards the stored status differs
\* from `processed` only because the record expired or because another
\* delivery of the same event_id wrote the status now stored.  When the
\* write failed, the failure was swallowed and the record is whatever the
\* earlier writes left.
OverwrittenByDuplicate(i) ==
    \E j \in Msgs :
        /\ j # i
        /\ SameEvent(msgs[i], msgs[j])
        /\ Wrote(msgs[j], store[Key(msgs[i].event.event_id)])

C26_AckedRecordedUnlessLostOrOverwritten ==
    \A i \in Msgs :
        AckedSuccess(msgs[i]) =>
            /\ Tried(msgs[i], NotificationStatus.PROCESSED)
            /\ \A n \in StepsOf(msgs[i], "set") :
                  (msgs[i].trace[n].arg = NotificationStatus.PROCESSED /\ msgs[i].trace[n].ok) =>
                      msgs[i].trace[n].after = <<NotificationStatus.PROCESSED, StatusTtl>>
            /\ Wrote(msgs[i], NotificationStatus.PROCESSED) =>
                  \/ store[Key(msgs[i].event.event_id)] = NotificationStatus.PROCESSED
                  \/ store[Key(msgs[i].event.event_id)] = None /\ ttl[Key(msgs[i].event.event_id)] = 0
                  \/ OverwrittenByDuplicate(i)

C26_Witness ==
    \E i, j \in Msgs :
        /\ AckedSuccess(msgs[i]) /\ Wrote(msgs[i], NotificationStatus.PROCESSED)
        /\ store[Key(msgs[i].event.event_id)] = NotificationStatus.PROCESSED
        /\ AckedSuccess(msgs[j]) /\ ~Wrote(msgs[j], NotificationStatus.PROCESSED)
        /\ store[Key(msgs[j].event.event_id)] = NotificationStatus.PENDING

\* the dedup read returned, and what the store held was `failed`
ReadFailedStatus(m) ==
    HasRead(m) /\ m.trace[2].ok /\ m.trace[2].arg = NotificationStatus.FAILED

Recovered(m) == ReadFailedStatus(m) /\ DispatchOk(m) /\ Ended(m)

Skipped(m) == Dispatches(m) = 0 /\ (Ended(m) => Acked(m) /\ Len(m.trace) = 3)

WentPendingProcessed(m) ==
    /\ m.trace[3].ok /\ m.trace[3].after = <<NotificationStatus.PENDING, StatusTtl>>
    /\ m.trace[5].ok /\ m.trace[5].after = <<NotificationStatus.PROCESSED, StatusTtl>>

\* C27 (as stated): when a delivery of an event ended with `failed` and a
\* later delivery of it is dispatched successfully, the status goes failed ->
\* pending -> processed, the later message is acknowledged, and every
\* delivery after that is skipped as a duplicate; `failed` never makes a
\* delivery skip.  (The parts about the recovering delivery itself: they
\* are refuted by a recovering delivery whose writes are lost.)
C27_RecoveryAfterFailure ==
    \A j \in Msgs :
        /\ ReadFailedStatus(msgs[j]) => ProcessedAsNew(msgs[j])
        /\ Recovered(msgs[j]) => Acked(msgs[j]) /\ WentPendingProcessed(msgs[j])

\* C27 (amended): `failed` never makes a delivery skip: a delivery that
\* reads `failed` writes `pending` (best-effort), dispatches, and when the
\* dispatcher returns it is acknowledged; each of its two writes that is
\* applied leaves `pending`, then `processed`, with the full TTL.  A later
\* delivery is skipped as a duplicate exactly when its dedup read succeeds
\* and returns the `processed` record; otherwise (write lost, read failed,
\* record expired) it is processed again.
C27_RecoveryWhenWritesApply ==
    \A j \in Msgs :
        LET m == msgs[j]
        IN /\ ReadFailedStatus(m) => ProcessedAsNew(m)
           /\ Recovered(m) =>
                 /\ Acked(m)
                 /\ Tried(m, NotificationStatus.PENDING)
                 /\ Tried(m, NotificationStatus.PROCESSED)
                 /\ m.trace[3].ok => m.trace[3].after = <<NotificationStatus.PENDING, StatusTtl>>
                 /\ m.trace[5].ok => m.trace[5].after = <<NotificationStatus.PROCESSED, StatusTtl>>
           /\ DedupHit(m) => Skipped(m)
           /\ (HasRead(m) /\ ~DedupHit(m)) => ProcessedAsNew(m)

C27_Witness ==
    /\ Len(msgs) = 3
    /\ msgs[1] = FailedDelivery
    /\ Recovered(msgs[2]) /\ Acked(msgs[2]) /\ WentPendingProcessed(msgs[2])
    /\ DedupHit(msgs[3]) /\ Ended(msgs[3]) /\ Skipped(msgs[3])

\* C28: under any interleaving of concurrent publish_* calls,
\* _ensure_connection opens at most one connection while none is open (no
\* two callers both connect), and every publish uses an exchange that
\* belongs to the connection stored at that moment.
OpenConnections == (1 .. producer.opened) \ producer.closed

Connecting == {c \in Callers : producer.pc[c] \in {"connecting", "setup"}}

HandedOver(c) == producer.pc[c] \in {"publishing", "published"}

C28_SharedConnection ==
    /\ Cardinality(Connecting) <= 1
    /\ Cardinality(OpenConnections) <= 1
    /\ \A c \in Callers :
          HandedOver(c) =>
              /\ producer.used[c] # 0
              /\ producer.used[c] = producer.stored[c]

====
